---------------------------- MODULE Spec2Model ----------------------------
(***************************************************************************)
(* A model of the request gating and of the contact-form server action of  *)
(* next-16-prisma-better-auth.                                             *)
(*                                                                         *)
(*  - proxy.ts: the route-matching proxy (matcher, protected routes,       *)
(*    session-cookie presence check, redirect to /signin?callbackUrl=...). *)
(*  - app/admin/page.tsx and app/user/page.tsx: server-side session gating.*)
(*  - app/messages/actions.ts: sendMessage (validate, send email, persist).*)
(*  - app/messages/page.tsx and app/signup/MagicLinkSignUp.tsx: the two     *)
(*    client forms (validation, loading flag, awaited call, sent flag).     *)
(*                                                                         *)
(* Strings the code inspects character by character (paths, e-mail         *)
(* addresses, form fields) are sequences of one-character strings.         *)
(***************************************************************************)
EXTENDS Naturals, Sequences, FiniteSets

VARIABLES
    request,      \* the HTTP request being handled: [pathname, cookies]
    stage,        \* how far it got: idle, received, routed, responded
    proxyRan,     \* whether config.matcher selected the proxy for it
    proxyResponse,\* what proxy returned for it (kind "none" when it did not run)
    pageSession,  \* what the page's server-side session lookup returned
    response,     \* what the client got for it
    userRead,     \* whether the page dereferenced session.user while rendering
    calls,        \* the sendMessage invocations: id -> [pc, input, result, ...]
    outbox,       \* e-mails the transactional e-mail API has accepted
    messages,     \* rows of the Message table
    userTable,    \* rows of the User table, in creation order
    form,         \* the state of one mounted MessagesPage (contact form)
    magic,        \* the state of one mounted MagicLinkSignUp
    env           \* the names of the environment variables that are set

vars == <<request, stage, proxyRan, proxyResponse, pageSession, response, userRead,
          calls, outbox, messages, userTable, form, magic, env>>
httpVars == <<request, stage, proxyRan, proxyResponse, pageSession, response, userRead>>
sendVars == <<calls, outbox, messages>>
authVars == <<userTable>>
clientVars == <<form, magic>>

---------------------------------------------------------------------------
(* Strings as character sequences                                          *)

startsWith(s, prefix) ==
    /\ Len(s) >= Len(prefix)
    /\ SubSeq(s, 1, Len(prefix)) = prefix

S_root       == <<"/">>
S_signin     == <<"/","s","i","g","n","i","n">>
S_signup     == <<"/","s","i","g","n","u","p">>
S_messages   == <<"/","m","e","s","s","a","g","e","s">>
S_user       == <<"/","u","s","e","r">>
S_admin      == <<"/","a","d","m","i","n">>

\* Request paths the model sends: every route of the application, sub-paths
\* of the protected routes, paths that only share a prefix with them, a path
\* holding a percent escape, and paths the matcher excludes or nearly excludes.
Paths ==
    { S_root, S_signin, S_signup, S_messages, S_user, S_admin,
      S_messages \o <<"/">>,
      S_messages \o <<"/","1">>,
      S_messages \o <<"2">>,
      S_user \o <<"/","s","e","t">>,
      S_user \o <<"/","%","2","F","a">>,
      S_user \o <<"s">>,
      <<"/","a","p","i">>,
      <<"/","a","p","i","/","a","u","t","h">>,
      <<"/","a","p","i","a","r","y">>,
      <<"/","_","n","e","x","t","/","s","t","a","t","i","c","/","x">>,
      <<"/","_","n","e","x","t","/","i","m","a","g","e">>,
      <<"/","_","n","e","x","t","/","d","a","t","a">>,
      <<"/","f","a","v","i","c","o","n",".","i","c","o">>,
      <<"/","f","a","v","i","c","o","n","-","i","c","o">> }


---------------------------------------------------------------------------
(* The HTTP side: requests, cookies, sessions                              *)

SessionCookieName == "better-auth.session_token"
OtherCookieName   == "theme"

\* Values a session cookie can carry; the proxy never looks at them.
Tokens == {"tok-1", "tok-2"}

\* request.cookies: a map from cookie name to value; a cookie is present
\* exactly when its name is in the map's domain.
CookieJars ==
    { [n \in D |-> IF n = SessionCookieName THEN t ELSE "dark"] :
        D \in SUBSET {SessionCookieName, OtherCookieName}, t \in Tokens }

Origin == "http://localhost:3000"

Roles == {"USER", "CLIENT", "MANAGER", "ADMIN"}

\* User rows the auth library can hand back in a session. The name may be
\* empty (a magic-link or OAuth account without a profile name); the e-mail
\* is the account's unique, non-empty login identifier.
Users == [name : {"", "Ann"}, email : {"ann@example.com"}, role : Roles]

NoSession == [user |-> [name |-> "", email |-> "", role |-> ""], present |-> FALSE]
Session(u) == [user |-> u, present |-> TRUE]

\* auth.api.getSession({ headers }): the session the request's cookie
\* stands for. Without the session cookie there is none; with it, the auth
\* library decides (the token may be stale or forged).
getSession(cookies) ==
    IF SessionCookieName \in DOMAIN cookies
    THEN {NoSession} \cup {Session(u) : u \in Users}
    ELSE {NoSession}

NoURL == [origin |-> "", pathname |-> <<>>, search |-> <<>>]

---------------------------------------------------------------------------
(* proxy.ts                                                                *)

protectedRoutes == <<S_messages, S_user>>

\* Mutant: only the routes themselves, not their sub-paths.
isProtectedRoute_exactOnly(pathname) ==
    \E i \in DOMAIN protectedRoutes : pathname = protectedRoutes[i]

\* Mutant: the route test without the "/" after the route.
isProtectedRoute_prefixOnly(pathname) ==
    \E i \in DOMAIN protectedRoutes : startsWith(pathname, protectedRoutes[i])

\* protectedRoutes.some(route => pathname === route ||
\*                               pathname.startsWith(`${route}/`))
isProtectedRoute(pathname) ==
    \E i \in DOMAIN protectedRoutes :
        \/ pathname = protectedRoutes[i]
        \/ startsWith(pathname, protectedRoutes[i] \o <<"/">>)

\* URLSearchParams serialisation (application/x-www-form-urlencoded) of one
\* character: letters, digits and * - . _ stay, a space becomes +, every
\* other character is percent-encoded.
urlencodeChar(c) ==
    IF c = "/" THEN <<"%","2","F">>
    ELSE IF c = "%" THEN <<"%","2","5">>
    ELSE IF c = " " THEN <<"+">>
    ELSE <<c>>

RECURSIVE urlencode(_)
urlencode(s) ==
    IF s = <<>> THEN <<>> ELSE urlencodeChar(Head(s)) \o urlencode(Tail(s))

\* Mutant: the path pasted into the query string without encoding.
signInUrl_unencoded(pathname) ==
    [ origin   |-> Origin,
      pathname |-> S_signin,
      search   |-> <<"?","c","a","l","l","b","a","c","k","U","r","l","=">>
                      \o pathname ]

\* new URL('/signin', request.url) followed by
\* searchParams.set('callbackUrl', pathname)
signInUrl(pathname) ==
    [ origin   |-> Origin,
      pathname |-> S_signin,
      search   |-> <<"?","c","a","l","l","b","a","c","k","U","r","l","=">>
                      \o urlencode(pathname) ]

NextResponse_next == [kind |-> "next", location |-> NoURL]
NextResponse_redirect(url) == [kind |-> "redirect", location |-> url]

\* Mutant: the cookie's value is compared, not its presence.
proxy_checksValue(req) ==
    IF isProtectedRoute(req.pathname)
       /\ ~( SessionCookieName \in DOMAIN req.cookies
             /\ req.cookies[SessionCookieName] = "tok-1" )
    THEN NextResponse_redirect(signInUrl(req.pathname))
    ELSE NextResponse_next

proxy(req) ==
    IF isProtectedRoute(req.pathname)
       /\ SessionCookieName \notin DOMAIN req.cookies
    THEN NextResponse_redirect(signInUrl(req.pathname))
    ELSE NextResponse_next

\* config.matcher: '/((?!api|_next/static|_next/image|favicon.ico).*)'
\* The lookahead is tested right after the leading slash; the dot of
\* favicon.ico is the regular expression's "any character".
matcher(pathname) ==
    /\ pathname # <<>>
    /\ Head(pathname) = "/"
    /\ LET rest == Tail(pathname) IN
        /\ ~startsWith(rest, <<"a","p","i">>)
        /\ ~startsWith(rest, <<"_","n","e","x","t","/","s","t","a","t","i","c">>)
        /\ ~startsWith(rest, <<"_","n","e","x","t","/","i","m","a","g","e">>)
        /\ ~( /\ startsWith(rest, <<"f","a","v","i","c","o","n">>)
              /\ Len(rest) >= 11
              /\ SubSeq(rest, 9, 11) = <<"i","c","o">> )

---------------------------------------------------------------------------
(* Pages                                                                   *)

\* redirect(path) of next/navigation: it throws, so nothing after it runs.
redirect(path) ==
    [ kind |-> "redirect",
      location |-> [origin |-> "", pathname |-> path, search |-> <<>>],
      page |-> "", identity |-> "", readUser |-> FALSE ]

\* a || b on strings: a when it is non-empty, else b
OrElse(a, b) == IF a # "" THEN a ELSE b

\* Mutant: the e-mail fallback is missing.
welcomeIdentity_nameOnly(user) == user.name

\* "Welcome, {session.user.name || session.user.email}!"
welcomeIdentity(user) == OrElse(user.name, user.email)

render(page, identity, readUser) ==
    [ kind |-> "render", location |-> NoURL,
      page |-> page, identity |-> identity, readUser |-> readUser ]

\* Mutant: the role test is missing.
AdminPage_noRoleCheck(session) ==
    IF ~session.present THEN redirect(S_signin)
    ELSE render("AdminPage", welcomeIdentity(session.user), TRUE)

\* app/admin/page.tsx
AdminPage(session) ==
    IF ~session.present THEN redirect(S_signin)
    ELSE IF session.user.role # "ADMIN"
         THEN [redirect(S_root) EXCEPT !.readUser = TRUE]
         ELSE render("AdminPage", welcomeIdentity(session.user), TRUE)

\* Mutant: the session test is missing.
UserPage_noGuard(session) ==
    render("UserPage", welcomeIdentity(session.user), TRUE)

\* app/user/page.tsx
UserPage(session) ==
    IF ~session.present THEN redirect(S_signin)
    ELSE render("UserPage", welcomeIdentity(session.user), TRUE)

\* The app router: the page that serves a path the proxy let through.
\* The contact form (MessagesPage) and the remaining pages gate nothing.
RenderPage(pathname, session) ==
    IF pathname = S_admin THEN AdminPage(session)
    ELSE IF pathname = S_user THEN UserPage(session)
    ELSE IF pathname = S_messages THEN render("MessagesPage", "", FALSE)
    ELSE render("other", "", FALSE)


NoResponse == [kind |-> "none", location |-> NoURL, page |-> "", identity |-> ""]

\* A request arrives. Requests share no state, so the model follows one
\* request from its arrival to its response.
Receive(pathname, cookies) ==
    /\ stage = "idle"
    /\ request' = [pathname |-> pathname, cookies |-> cookies]
    /\ stage' = "received"
    /\ UNCHANGED <<proxyRan, proxyResponse, pageSession, response, userRead>>
    /\ UNCHANGED <<sendVars, authVars, clientVars, env>>

\* The framework runs proxy on the request when config.matcher selects its
\* path. A redirect of the proxy is the response; otherwise the request
\* goes on to its route.
RunProxy ==
    /\ stage = "received"
    /\ LET ran == matcher(request.pathname)
           p   == IF ran THEN proxy(request)
                  ELSE [kind |-> "none", location |-> NoURL]
       IN  /\ proxyRan' = ran
           /\ proxyResponse' = p
           /\ IF p.kind = "redirect"
              THEN /\ response' = [NoResponse EXCEPT !.kind = "redirect",
                                                     !.location = p.location]
                   /\ stage' = "responded"
              ELSE /\ response' = response
                   /\ stage' = "routed"
    /\ UNCHANGED <<request, pageSession, userRead>>
    /\ UNCHANGED <<sendVars, authVars, clientVars, env>>

\* The route's page runs on the server: it looks the session up and
\* renders or redirects.
RenderRoute(found) ==
    /\ stage = "routed"
    /\ found \in getSession(request.cookies)
    /\ LET r == RenderPage(request.pathname, found) IN
        /\ response' = [kind |-> r.kind, location |-> r.location,
                        page |-> r.page, identity |-> r.identity]
        /\ userRead' = r.readUser
    /\ pageSession' = found
    /\ stage' = "responded"
    /\ UNCHANGED <<request, proxyRan, proxyResponse>>
    /\ UNCHANGED <<sendVars, authVars, clientVars, env>>

---------------------------------------------------------------------------
(* app/messages/actions.ts: messageSchema                                  *)

\* A field the caller left out (undefined); no character sequence equals it.
UNDEFINED == <<"undefined">>

Lower == {"a","b","c","d","e","f","g","h","i","j","k","l","m",
          "n","o","p","q","r","s","t","u","v","w","x","y","z"}
Upper == {"A","B","C","D","E","F","G","H","I","J","K","L","M",
          "N","O","P","Q","R","S","T","U","V","W","X","Y","Z"}
Digit == {"0","1","2","3","4","5","6","7","8","9"}
Letter == Lower \cup Upper
AlphaNum == Letter \cup Digit

\* ([A-Z0-9][A-Z0-9\-]*\.)+[A-Z]{2,}   (case-insensitive)
emailDomain(d) ==
    /\ d # <<>>
    /\ \A i \in 1..Len(d) :
          IF i = 1 \/ d[IF i = 1 THEN 1 ELSE i - 1] = "."
          THEN d[i] \in AlphaNum
          ELSE d[i] \in AlphaNum \cup {"-", "."}
    /\ \E k \in 1..Len(d) :
          /\ d[k] = "."
          /\ Len(d) - k >= 2
          /\ \A j \in (k + 1)..Len(d) : d[j] \in Letter

\* z.string().email(): zod's e-mail pattern
\* ^(?!\.)(?!.*\.\.)([A-Z0-9_'+\-\.]*)[A-Z0-9_+-]@<domain>$
isEmail(s) ==
    /\ s # <<>>
    /\ s[1] # "."
    /\ \A i \in 1..(Len(s) - 1) : ~(s[i] = "." /\ s[i + 1] = ".")
    /\ \E k \in 2..Len(s) :
          /\ s[k] = "@"
          /\ \A i \in 1..(k - 1) : s[i] \in AlphaNum \cup {"_", "'", "+", "-", "."}
          /\ s[k - 1] \in AlphaNum \cup {"_", "+", "-"}
          /\ emailDomain(SubSeq(s, k + 1, Len(s)))

NullInput == [isNull |-> TRUE]

\* Mutant: the message field is not validated.
messageSchema_issues_noMessageCheck(input) ==
    IF input = NullInput THEN <<"Expected object, received null">>
    ELSE
      (IF input.name = UNDEFINED THEN <<"Required">>
       ELSE IF Len(input.name) < 1 THEN <<"Name is required">> ELSE <<>>)
      \o
      (IF input.email = UNDEFINED THEN <<"Required">>
       ELSE IF ~isEmail(input.email) THEN <<"Invalid email">> ELSE <<>>)

\* messageSchema.parse(input): the issues found, in the schema's field
\* order; the empty sequence when the input is valid.
messageSchema_issues(input) ==
    IF input = NullInput THEN <<"Expected object, received null">>
    ELSE
      (IF input.name = UNDEFINED THEN <<"Required">>
       ELSE IF Len(input.name) < 1 THEN <<"Name is required">> ELSE <<>>)
      \o
      (IF input.email = UNDEFINED THEN <<"Required">>
       ELSE IF ~isEmail(input.email) THEN <<"Invalid email">> ELSE <<>>)
      \o
      (IF input.message = UNDEFINED THEN <<"Required">>
       ELSE IF Len(input.message) < 1 THEN <<"Message is required">> ELSE <<>>)


---------------------------------------------------------------------------
(* app/messages/actions.ts: sendMessage                                    *)

MaxCalls == 2
CallIds == 1..MaxCalls

NameInputs    == { UNDEFINED, <<>>, <<"A","l">>, <<"B">> }
MessageInputs == { <<>>, <<"h","i">> }
EmailInputs ==
    { <<>>,
      <<"a","@","b",".","c","o">>,
      <<"a","@","b">>,
      <<"a","b",".","c","o">>,
      <<".","a","@","b",".","c","o">> }

\* What a caller can hand to the server action.
Inputs ==
    [name : NameInputs, email : EmailInputs, message : MessageInputs]
        \cup {NullInput}

NoInput == [isNone |-> TRUE]

\* The environment the README tells a deployment to set.
DocumentedEnv ==
    { "DATABASE_URL", "NEXT_PUBLIC_BASE_URL", "BETTER_AUTH_SECRET",
      "BETTER_AUTH_URL", "GITHUB_CLIENT_ID", "GITHUB_CLIENT_SECRET",
      "GOOGLE_CLIENT_ID", "GOOGLE_CLIENT_SECRET", "RESEND_API_KEY", "EMAIL_FROM" }

\* process.env.* read by the contact form's sender (sendMessage) and by
\* the magic-link sender (auth.ts, sendMagicLink).
contactForm_keyVar  == "AUTH_RESEND_KEY"
contactForm_fromVar == "AUTH_RESEND_FROM"
magicLink_keyVar    == "RESEND_API_KEY"
magicLink_fromVar   == "EMAIL_FROM"

\* Deployments: the documented environment, and the documented environment
\* with the variables sendMessage reads added.
EnvConfigs ==
    { DocumentedEnv, DocumentedEnv \cup {contactForm_keyVar, contactForm_fromVar} }

\* The e-mail API can accept a contact-form e-mail only when sendMessage
\* found an API key and a sender address in the environment.
contactFormSenderConfigured ==
    {contactForm_keyVar, contactForm_fromVar} \subseteq env

\* How an awaited call of a collaborator can end. resend.emails.send either
\* resolves with the accepted e-mail, resolves with an error object in its
\* result (which sendMessage does not inspect), or throws; db.message.create
\* resolves with the created row or throws.
EmailOutcomes == {"delivered", "error-returned", "thrown"}
DbOutcomes    == {"created", "thrown"}

Pending == [pending |-> TRUE]

\* return { success: true }
Success == [success |-> TRUE]
\* return { success: false, error }
Failure(error) == [success |-> FALSE, error |-> error]

\* What the collaborators' exceptions say; none of it is meant for the caller.
EmailThrowDetail == "Unable to fetch data. The request could not be resolved."
DbThrowDetail    == "Can't reach database server at db:5432"

ZodError(issues) == [zod |-> TRUE, issues |-> issues, message |-> "ZodError"]
OtherError(detail) == [zod |-> FALSE, issues |-> <<>>, message |-> detail]

\* Mutant: the message of the last validation issue is reported.
catchBlock_lastIssue(error) ==
    IF error.zod
    THEN IF error.issues = <<>>
         THEN [threw |-> TRUE, result |-> [pending |-> TRUE]]
         ELSE [threw |-> FALSE,
               result |-> [success |-> FALSE,
                           error |-> error.issues[Len(error.issues)]]]
    ELSE [threw |-> FALSE,
          result |-> [success |-> FALSE, error |-> "Failed to send message"]]

\* Mutant: the thrown error's own message is handed to the caller.
catchBlock_leaksDetail(error) ==
    IF error.zod
    THEN IF error.issues = <<>>
         THEN [threw |-> TRUE, result |-> [pending |-> TRUE]]
         ELSE [threw |-> FALSE,
               result |-> [success |-> FALSE, error |-> error.issues[1]]]
    ELSE [threw |-> FALSE, result |-> [success |-> FALSE, error |-> error.message]]

\* Mutant: only validation errors are turned into a result; any other
\* error leaves the function as an exception.
catchBlock_rethrows(error) ==
    IF error.zod /\ error.issues # <<>>
    THEN [threw |-> FALSE, result |-> Failure(error.issues[1])]
    ELSE [threw |-> TRUE, result |-> Pending]

\* The catch block: what the invocation ends with for a caught error.
\* error.errors[0].message of an error without issues would itself throw.
catchBlock(error) ==
    IF error.zod
    THEN IF error.issues = <<>>
         THEN [threw |-> TRUE, result |-> Pending]
         ELSE [threw |-> FALSE, result |-> Failure(error.issues[1])]
    ELSE [threw |-> FALSE, result |-> Failure("Failed to send message")]

\* The e-mail handed to resend.emails.send
emailOf(validated) ==
    [ to |-> "AUTH_RESEND_FROM", subjectName |-> validated.name,
      name |-> validated.name, email |-> validated.email,
      message |-> validated.message ]

\* The row handed to db.message.create
rowOf(validated) ==
    [ name |-> validated.name, email |-> validated.email,
      message |-> validated.message ]

IdleCall ==
    [ pc |-> "idle", input |-> NoInput, result |-> Pending, threw |-> FALSE,
      sends |-> 0, creates |-> 0, emailOutcome |-> "none", dbOutcome |-> "none" ]

\* sendMessage(input) up to its first await: validation, then the e-mail
\* request is issued. Invalid input ends the invocation in the catch block.
Invoke(i, input) ==
    /\ calls[i].pc = "idle"
    /\ LET issues == messageSchema_issues(input) IN
       IF issues # <<>>
       THEN LET c == catchBlock(ZodError(issues)) IN
            calls' = [calls EXCEPT ![i] =
                        [@ EXCEPT !.pc = "done", !.input = input,
                                  !.result = c.result, !.threw = c.threw]]
       ELSE calls' = [calls EXCEPT ![i] =
                        [@ EXCEPT !.pc = "awaitSend", !.input = input,
                                  !.sends = @ + 1]]
    /\ UNCHANGED <<outbox, messages>>
    /\ UNCHANGED <<httpVars, authVars, clientVars, env>>

\* Mutant: the row is created even though the send threw.
SendSettles_persistsAnyway(i, outcome) ==
    /\ calls[i].pc = "awaitSend"
    /\ outcome = "delivered" => contactFormSenderConfigured
    /\ outbox' = IF outcome = "delivered"
                 THEN Append(outbox, emailOf(calls[i].input))
                 ELSE outbox
    /\ calls' = [calls EXCEPT ![i] =
                    [@ EXCEPT !.pc = "awaitCreate", !.emailOutcome = outcome,
                              !.creates = @ + 1]]
    /\ UNCHANGED messages
    /\ UNCHANGED <<httpVars, authVars, clientVars, env>>

\* await resend.emails.send(...) settles. Unless it throws, the function
\* goes on to issue db.message.create.
SendSettles(i, outcome) ==
    /\ calls[i].pc = "awaitSend"
    /\ outcome = "delivered" => contactFormSenderConfigured
    /\ outbox' = IF outcome = "delivered"
                 THEN Append(outbox, emailOf(calls[i].input))
                 ELSE outbox
    /\ IF outcome = "thrown"
       THEN LET c == catchBlock(OtherError(EmailThrowDetail)) IN
            calls' = [calls EXCEPT ![i] =
                        [@ EXCEPT !.pc = "done", !.emailOutcome = outcome,
                                  !.result = c.result, !.threw = c.threw]]
       ELSE calls' = [calls EXCEPT ![i] =
                        [@ EXCEPT !.pc = "awaitCreate", !.emailOutcome = outcome,
                                  !.creates = @ + 1]]
    /\ UNCHANGED messages
    /\ UNCHANGED <<httpVars, authVars, clientVars, env>>

\* Mutant: invocations share the place the row goes to, the last one wins.
CreateSettles_lastWriterWins(i, outcome) ==
    /\ calls[i].pc = "awaitCreate"
    /\ messages' = IF outcome = "created"
                   THEN <<rowOf(calls[i].input)>>
                   ELSE messages
    /\ IF outcome = "thrown"
       THEN LET c == catchBlock(OtherError(DbThrowDetail)) IN
            calls' = [calls EXCEPT ![i] =
                        [@ EXCEPT !.pc = "done", !.dbOutcome = outcome,
                                  !.result = c.result, !.threw = c.threw]]
       ELSE calls' = [calls EXCEPT ![i] =
                        [@ EXCEPT !.pc = "done", !.dbOutcome = outcome,
                                  !.result = Success]]
    /\ UNCHANGED outbox
    /\ UNCHANGED <<httpVars, authVars, clientVars, env>>

\* Mutant: a failed persistence takes the e-mail back.
CreateSettles_compensates(i, outcome) ==
    /\ calls[i].pc = "awaitCreate"
    /\ messages' = IF outcome = "created"
                   THEN Append(messages, rowOf(calls[i].input))
                   ELSE messages
    /\ IF outcome = "thrown"
       THEN LET c == catchBlock(OtherError(DbThrowDetail))
                Kept(e) == e # emailOf(calls[i].input)
            IN  /\ calls' = [calls EXCEPT ![i] =
                        [@ EXCEPT !.pc = "done", !.dbOutcome = outcome,
                                  !.result = c.result, !.threw = c.threw]]
                /\ outbox' = SelectSeq(outbox, Kept)
       ELSE /\ calls' = [calls EXCEPT ![i] =
                        [@ EXCEPT !.pc = "done", !.dbOutcome = outcome,
                                  !.result = Success]]
            /\ outbox' = outbox
    /\ UNCHANGED <<httpVars, authVars, clientVars, env>>

\* await db.message.create(...) settles; then return { success: true }.
CreateSettles(i, outcome) ==
    /\ calls[i].pc = "awaitCreate"
    /\ messages' = IF outcome = "created"
                   THEN Append(messages, rowOf(calls[i].input))
                   ELSE messages
    /\ IF outcome = "thrown"
       THEN LET c == catchBlock(OtherError(DbThrowDetail)) IN
            calls' = [calls EXCEPT ![i] =
                        [@ EXCEPT !.pc = "done", !.dbOutcome = outcome,
                                  !.result = c.result, !.threw = c.threw]]
       ELSE calls' = [calls EXCEPT ![i] =
                        [@ EXCEPT !.pc = "done", !.dbOutcome = outcome,
                                  !.result = Success]]
    /\ UNCHANGED outbox
    /\ UNCHANGED <<httpVars, authVars, clientVars, env>>

---------------------------------------------------------------------------
(* lib/auth.ts: the user's role                                            *)

MaxUsers == 2

\* user.additionalFields.role.defaultValue
roleDefaultValue_client == "CLIENT"

roleDefaultValue == "USER"

\* The role a caller of the auth library hands in when a user is created:
\* none, or a string (the field's type is 'string').
NoRoleGiven == [given |-> FALSE, value |-> ""]
RoleGiven(r) == [given |-> TRUE, value |-> r]
RoleInputs == {NoRoleGiven} \cup {RoleGiven(r) : r \in Roles \cup {"SUPERUSER"}}

AccountEmails == {"ann@example.com", "bob@example.com", "cy@example.com"}

\* The auth library fills a field that was not given with its defaultValue.
newUserRow(name, email, roleInput) ==
    [ name |-> name, email |-> email,
      role |-> IF roleInput.given THEN roleInput.value ELSE roleDefaultValue,
      roleGiven |-> roleInput.given ]

\* The role column of the User table is the enumeration of the four access
\* levels; the database refuses any other value.
roleColumnAccepts(role) == role \in Roles

\* A user is created (sign-up, first OAuth or magic-link sign-in). The
\* e-mail is unique; a row the database refuses is not stored.
CreateUser(name, email, roleInput) ==
    /\ Len(userTable) < MaxUsers
    /\ \A k \in DOMAIN userTable : userTable[k].email # email
    /\ LET row == newUserRow(name, email, roleInput) IN
        userTable' = IF roleColumnAccepts(row.role)
                     THEN Append(userTable, row)
                     ELSE userTable
    /\ UNCHANGED <<httpVars, sendVars, clientVars, env>>

---------------------------------------------------------------------------
(* app/messages/page.tsx: the contact form (client component)              *)

MaxSubmits == 2

\* What a visitor types into the three inputs.
FormNames    == { <<>>, <<"A","l">> }
FormEmails   == { <<>>, <<"a","@","b",".","c","o">>, <<"a","@","b">> }
FormMessages == { <<>>, <<"h","i">> }
FormFieldValues(field) ==
    IF field = "name" THEN FormNames
    ELSE IF field = "email" THEN FormEmails
    ELSE FormMessages

\* useState<{type, message?}>: a missing message is the empty string.
StatusIdle       == [type |-> "idle", message |-> ""]
StatusLoading    == [type |-> "loading", message |-> ""]
StatusSuccess    == [type |-> "success", message |-> "Message sent successfully!"]
StatusError(msg) == [type |-> "error", message |-> msg]

\* FieldErrors {}: no field has a message.
NoFieldErrors == [f \in {} |-> ""]

\* The page's own messageSchema.safeParse({name, email, message}): the
\* issues, each with the field it is about, in the schema's field order.
\* The three values are always strings here (they are React state).
page_messageSchema_issues(data) ==
    (IF Len(data.name) < 1
     THEN << [path |-> "name", message |-> "Name is required"] >> ELSE <<>>)
    \o
    (IF ~isEmail(data.email)
     THEN << [path |-> "email", message |-> "Invalid email"] >> ELSE <<>>)
    \o
    (IF Len(data.message) < 1
     THEN << [path |-> "message", message |-> "Message is required"] >> ELSE <<>>)

\* issues.forEach(err => fieldErrors[err.path[0]] = err.message): a later
\* issue of the same field overwrites an earlier one.
fieldErrors(issues) ==
    [ f \in {issues[k].path : k \in DOMAIN issues} |->
        LET last == CHOOSE k \in DOMAIN issues :
                        /\ issues[k].path = f
                        /\ \A j \in DOMAIN issues : issues[j].path = f => j <= k
        IN issues[last].message ]

\* What the server action can resolve with for the data it is handed: the
\* first validation message, or success, or the generic failure.
sendMessage_results(data) ==
    IF messageSchema_issues(data) # <<>>
    THEN { catchBlock(ZodError(messageSchema_issues(data))).result }
    ELSE { Success,
           catchBlock(OtherError(EmailThrowDetail)).result,
           catchBlock(OtherError(DbThrowDetail)).result }

\* How the promise of `await sendMessage(result.data)` settles on the
\* client: it resolves with the action's return value, or the call itself
\* rejects (the request to the server fails, or the action throws).
Rejected == [rejected |-> TRUE, response |-> Pending]
Resolved(r) == [rejected |-> FALSE, response |-> r]
CallOutcomes(data) == {Rejected} \cup {Resolved(r) : r \in sendMessage_results(data)}

\* Every outcome some call of the form can have.
FormCallOutcomes ==
    UNION { CallOutcomes(d) :
              d \in [name : FormNames, email : FormEmails, message : FormMessages] }

InitialForm ==
    [ name |-> <<>>, email |-> <<>>, message |-> <<>>,
      errors |-> NoFieldErrors, status |-> StatusIdle,
      call |-> "none",       \* the awaited promise: none, pending, resolved, rejected
      arg |-> NoInput,       \* result.data handed to sendMessage
      response |-> Pending,  \* what the last call resolved with
      calls |-> 0,           \* how often sendMessage was called
      submits |-> 0 ]        \* how often handleSubmit ran

formData == [name |-> form.name, email |-> form.email, message |-> form.message]

\* The submit button is disabled while status.type is "loading".
submitDisabled == form.status.type = "loading"

\* onChange of an input: setName / setEmail / setMessage. The inputs are
\* never disabled.
MessagesPage_onChange(field, value) ==
    /\ form[field] # value
    /\ form' = [form EXCEPT ![field] = value]
    /\ UNCHANGED <<httpVars, sendVars, authVars, magic, env>>

\* Mutant: the status is set to loading before the fields are validated.
MessagesPage_handleSubmit_loadingFirst ==
    /\ ~submitDisabled
    /\ form.submits < MaxSubmits
    /\ LET issues == page_messageSchema_issues(formData) IN
         IF issues # <<>>
         THEN form' = [form EXCEPT !.errors = fieldErrors(issues),
                                   !.status = [type |-> "loading", message |-> ""],
                                   !.submits = @ + 1]
         ELSE form' = [form EXCEPT !.errors = [f \in {} |-> ""],
                                   !.status = [type |-> "loading", message |-> ""],
                                   !.call = "pending",
                                   !.arg = formData,
                                   !.calls = @ + 1,
                                   !.submits = @ + 1]
    /\ UNCHANGED <<httpVars, sendVars, authVars, magic, env>>

\* handleSubmit up to its await: clear the errors, validate; on failure set
\* the per-field errors and return, otherwise set loading and call
\* sendMessage.
MessagesPage_handleSubmit ==
    /\ ~submitDisabled
    /\ form.submits < MaxSubmits
    /\ LET issues == page_messageSchema_issues(formData) IN
         IF issues # <<>>
         THEN form' = [form EXCEPT !.errors = fieldErrors(issues),
                                   !.submits = @ + 1]
         ELSE form' = [form EXCEPT !.errors = NoFieldErrors,
                                   !.status = StatusLoading,
                                   !.call = "pending",
                                   !.arg = formData,
                                   !.calls = @ + 1,
                                   !.submits = @ + 1]
    /\ UNCHANGED <<httpVars, sendVars, authVars, magic, env>>

\* Mutant: the fields are reset whatever the response says.
MessagesPage_sendMessageSettles_resetsAlways(outcome) ==
    /\ form.call = "pending"
    /\ outcome \in CallOutcomes(form.arg)
    /\ IF outcome.rejected
       THEN form' = [form EXCEPT !.call = "rejected"]
       ELSE form' = [form EXCEPT !.call = "resolved",
                                 !.response = outcome.response,
                                 !.status = IF outcome.response.success
                                            THEN [type |-> "success",
                                                  message |-> "Message sent successfully!"]
                                            ELSE [type |-> "error",
                                                  message |-> outcome.response.error],
                                 !.name = <<>>, !.email = <<>>, !.message = <<>>]
    /\ UNCHANGED <<httpVars, sendVars, authVars, magic, env>>

\* handleSubmit after its await. A rejection is thrown at the await: nothing
\* catches it, the rest of the handler does not run.
MessagesPage_sendMessageSettles(outcome) ==
    /\ form.call = "pending"
    /\ outcome \in CallOutcomes(form.arg)
    /\ IF outcome.rejected
       THEN form' = [form EXCEPT !.call = "rejected"]
       ELSE IF outcome.response.success
       THEN form' = [form EXCEPT !.call = "resolved",
                                 !.response = outcome.response,
                                 !.status = StatusSuccess,
                                 !.name = <<>>, !.email = <<>>, !.message = <<>>]
       ELSE form' = [form EXCEPT !.call = "resolved",
                                 !.response = outcome.response,
                                 !.status = StatusError(outcome.response.error)]
    /\ UNCHANGED <<httpVars, sendVars, authVars, magic, env>>

---------------------------------------------------------------------------
(* app/signup/MagicLinkSignUp.tsx (client component)                       *)

MaxMagicLinks == 3

MagicEmails == { <<>>, <<"a","@","b",".","c","o">>, <<"c","@","d">>, <<"a","b">> }

\* <input type="email" required>: the browser submits the form only when
\* the value is non-empty and has an "@" with something on either side.
emailInputValid(s) ==
    /\ s # <<>>
    /\ \E k \in 2..(Len(s) - 1) : s[k] = "@"

\* authClient.signIn.magicLink(...): the promise resolves with { data } or
\* with { error }, or it rejects.
MagicLinkOutcomes == {"resolved-data", "resolved-error", "rejected"}
magicLinkResolved(outcome) == outcome \in {"resolved-data", "resolved-error"}

InitialMagic ==
    [ email |-> <<>>, sent |-> FALSE, loading |-> FALSE,
      requests |-> <<>>,     \* the magicLink calls made, in order
      inFlight |-> 0,        \* how many of them have not settled
      last |-> "none" ]      \* how the last settled one settled

\* if (sent) return <div>...</div>: the form is rendered only while !sent.
formRendered == ~magic.sent
\* <button type="submit" disabled={loading}>
buttonDisabled == magic.loading

MagicLinkSignUp_onChange(value) ==
    /\ formRendered
    /\ magic.email # value
    /\ magic' = [magic EXCEPT !.email = value]
    /\ UNCHANGED <<httpVars, sendVars, authVars, form, env>>

\* Mutant: the button is not disabled while loading.
MagicLinkSignUp_handleSubmit_notDisabled ==
    /\ ~magic.sent
    /\ emailInputValid(magic.email)
    /\ Len(magic.requests) < MaxMagicLinks
    /\ magic' = [magic EXCEPT
                    !.loading = TRUE,
                    !.requests = Append(@, [email |-> magic.email, callbackURL |-> "/"]),
                    !.inFlight = @ + 1]
    /\ UNCHANGED <<httpVars, sendVars, authVars, form, env>>

\* handleSubmit up to its await: setLoading(true) and the magicLink call.
MagicLinkSignUp_handleSubmit ==
    /\ formRendered
    /\ ~buttonDisabled
    /\ emailInputValid(magic.email)
    /\ Len(magic.requests) < MaxMagicLinks
    /\ magic' = [magic EXCEPT
                    !.loading = TRUE,
                    !.requests = Append(@, [email |-> magic.email, callbackURL |-> "/"]),
                    !.inFlight = @ + 1]
    /\ UNCHANGED <<httpVars, sendVars, authVars, form, env>>

\* Mutant: setSent(true) and setLoading(false) both sit after the await,
\* without try/finally.
MagicLinkSignUp_magicLinkSettles_noFinally(outcome) ==
    /\ magic.inFlight > 0
    /\ magic' = [magic EXCEPT
                    !.sent = IF outcome \in {"resolved-data", "resolved-error"}
                             THEN TRUE ELSE @,
                    !.loading = IF outcome \in {"resolved-data", "resolved-error"}
                                THEN FALSE ELSE @,
                    !.inFlight = @ - 1,
                    !.last = outcome]
    /\ UNCHANGED <<httpVars, sendVars, authVars, form, env>>

\* handleSubmit after its await: setSent(true) when the promise resolved,
\* and setLoading(false) in the finally block either way.
MagicLinkSignUp_magicLinkSettles(outcome) ==
    /\ magic.inFlight > 0
    /\ magic' = [magic EXCEPT
                    !.sent = IF magicLinkResolved(outcome) THEN TRUE ELSE @,
                    !.loading = FALSE,
                    !.inFlight = @ - 1,
                    !.last = outcome]
    /\ UNCHANGED <<httpVars, sendVars, authVars, form, env>>

---------------------------------------------------------------------------
(* Specifications                                                          *)

Init ==
    /\ request = [pathname |-> <<>>, cookies |-> <<>>]
    /\ stage = "idle"
    /\ proxyRan = FALSE
    /\ proxyResponse = [kind |-> "none", location |-> NoURL]
    /\ pageSession = NoSession
    /\ response = NoResponse
    /\ userRead = FALSE
    /\ calls = [i \in CallIds |-> IdleCall]
    /\ outbox = <<>>
    /\ messages = <<>>
    /\ userTable = <<>>
    /\ form = InitialForm
    /\ magic = InitialMagic
    /\ env \in EnvConfigs

Request ==
    \/ \E pathname \in Paths, cookies \in CookieJars : Receive(pathname, cookies)
    \/ RunProxy
    \/ \E found \in {NoSession} \cup {Session(u) : u \in Users} : RenderRoute(found)

SendMessage ==
    \E i \in CallIds :
        \/ \E input \in Inputs : Invoke(i, input)
        \/ \E outcome \in EmailOutcomes : SendSettles(i, outcome)
        \/ \E outcome \in DbOutcomes : CreateSettles(i, outcome)

\* The request side alone, and the contact-form server action alone.
SpecHttp == Init /\ [][Request]_vars
SpecSend == Init /\ [][SendMessage]_vars

Auth ==
    \E name \in {"", "Ann"}, email \in AccountEmails, roleInput \in RoleInputs :
        CreateUser(name, email, roleInput)

\* User creation alone.
SpecAuth == Init /\ [][Auth]_vars

Form ==
    \/ \E field \in {"name", "email", "message"} :
          \E value \in FormFieldValues(field) : MessagesPage_onChange(field, value)
    \/ MessagesPage_handleSubmit
    \/ \E outcome \in FormCallOutcomes : MessagesPage_sendMessageSettles(outcome)

\* The contact form alone; and the same with the awaited call settling
\* eventually (a promise that is pending resolves or rejects).
SpecForm == Init /\ [][Form]_vars
SpecFormFair ==
    SpecForm /\ WF_vars(\E outcome \in FormCallOutcomes :
                            MessagesPage_sendMessageSettles(outcome))

Magic ==
    \/ \E value \in MagicEmails : MagicLinkSignUp_onChange(value)
    \/ MagicLinkSignUp_handleSubmit
    \/ \E outcome \in MagicLinkOutcomes : MagicLinkSignUp_magicLinkSettles(outcome)

\* The magic-link form alone.
SpecMagic == Init /\ [][Magic]_vars

Next == Request \/ SendMessage \/ Auth \/ Form \/ Magic
Spec == Init /\ [][Next]_vars


---------------------------------------------------------------------------
(* Properties of the proxy and of the gated pages (SpecHttp)               *)

\* The protected set as the specification words it: /messages, /user, or a
\* sub-path of either.
InProtectedSet(p) ==
    \/ p = S_messages
    \/ p = S_user
    \/ startsWith(p, S_messages \o <<"/">>)
    \/ startsWith(p, S_user \o <<"/">>)

HasSessionCookie == SessionCookieName \in DOMAIN request.cookies

ProxyDecided == stage \in {"routed", "responded"}

\* Reading a query parameter back (URLSearchParams.get): + is a space and
\* %XY is the character with that code.
RECURSIVE urldecode(_)
urldecode(s) ==
    IF s = <<>> THEN <<>>
    ELSE IF Head(s) = "+" THEN <<" ">> \o urldecode(Tail(s))
    ELSE IF Len(s) >= 3 /\ SubSeq(s, 1, 3) = <<"%","2","F">>
         THEN <<"/">> \o urldecode(SubSeq(s, 4, Len(s)))
    ELSE IF Len(s) >= 3 /\ SubSeq(s, 1, 3) = <<"%","2","5">>
         THEN <<"%">> \o urldecode(SubSeq(s, 4, Len(s)))
    ELSE <<Head(s)>> \o urldecode(Tail(s))

CallbackUrlKey == <<"?","c","a","l","l","b","a","c","k","U","r","l","=">>

\* The value of the callbackUrl parameter of a URL whose query is exactly
\* that parameter; UNDEFINED when the query is anything else.
callbackUrlOf(url) ==
    IF startsWith(url.search, CallbackUrlKey)
       /\ \A i \in (Len(CallbackUrlKey) + 1)..Len(url.search) :
              url.search[i] \notin {"&", "=", "#", "?"}
    THEN urldecode(SubSeq(url.search, Len(CallbackUrlKey) + 1, Len(url.search)))
    ELSE UNDEFINED

\* C1: a request for a protected path (/messages, /user or a sub-path of
\* either) that carries no better-auth.session_token cookie is answered by
\* the proxy with a redirect to /signin whose callbackUrl query parameter
\* reads back as the original request path.
C1_ProtectedWithoutCookieRedirects ==
    (ProxyDecided /\ InProtectedSet(request.pathname) /\ ~HasSessionCookie)
    => /\ proxyRan
       /\ proxyResponse.kind = "redirect"
       /\ proxyResponse.location.origin = Origin
       /\ proxyResponse.location.pathname = S_signin
       /\ callbackUrlOf(proxyResponse.location) = request.pathname
       /\ stage = "responded"
       /\ response.kind = "redirect"
       /\ response.location = proxyResponse.location

C1_Witness ==
    /\ stage = "responded"
    /\ request.pathname = S_user \o <<"/","%","2","F","a">>
    /\ OtherCookieName \in DOMAIN request.cookies
    /\ ~HasSessionCookie
    /\ response.kind = "redirect"

\* C2: for a request whose path is outside the protected set, the proxy
\* returns NextResponse.next() and no redirect, with or without the
\* session cookie.
C2_UnprotectedPassesThrough ==
    (ProxyDecided /\ proxyRan /\ ~InProtectedSet(request.pathname))
    => /\ proxyResponse = NextResponse_next
       /\ response.location.pathname = S_signin => request.pathname = S_admin

C2_Witness ==
    /\ ProxyDecided
    /\ proxyRan
    /\ request.pathname = S_user \o <<"s">>
    /\ ~HasSessionCookie
    /\ proxyResponse.kind = "next"

\* C3: /messages is a public page: a request for /messages without a
\* session cookie gets the contact-form page and is not redirected to the
\* sign-in page.
C3_MessagesIsPublic ==
    (stage = "responded" /\ request.pathname = S_messages /\ ~HasSessionCookie)
    => /\ response.kind = "render"
       /\ response.page = "MessagesPage"

\* C6: /admin redirects a session whose role is not ADMIN to /, redirects a
\* visit without a session to /signin, renders the admin content only for
\* role ADMIN, and does not read session.user when there is no session.
C6_AdminGate ==
    (stage = "responded" /\ request.pathname = S_admin)
    => /\ proxyResponse.kind # "redirect"
       /\ ~pageSession.present
            => /\ response.kind = "redirect"
               /\ response.location.pathname = S_signin
               /\ ~userRead
       /\ (pageSession.present /\ pageSession.user.role # "ADMIN")
            => /\ response.kind = "redirect"
               /\ response.location.pathname = S_root
       /\ (pageSession.present /\ pageSession.user.role = "ADMIN")
            => /\ response.kind = "render"
               /\ response.page = "AdminPage"
       /\ response.kind = "render"
            => (pageSession.present /\ pageSession.user.role = "ADMIN")

C6_Witness ==
    /\ stage = "responded"
    /\ request.pathname = S_admin
    /\ pageSession.present
    /\ pageSession.user.role = "MANAGER"
    /\ response.kind = "redirect"
    /\ response.location.pathname = S_root

\* C7: /user without a valid session is redirected to /signin by the page
\* itself (the proxy having let the request through), and the user page
\* content is rendered only when the session lookup returned a session.
C7_UserGate ==
    (stage = "responded" /\ request.pathname = S_user)
    => /\ (proxyResponse.kind = "next" /\ ~pageSession.present)
            => /\ response.kind = "redirect"
               /\ response.location = [origin |-> "", pathname |-> S_signin,
                                       search |-> <<>>]
       /\ response.kind = "render"
            => (response.page = "UserPage" /\ pageSession.present)
       /\ pageSession.present => response.kind = "render"
       /\ ~pageSession.present
            => /\ response.kind = "redirect"
               /\ response.location.pathname = S_signin

C7_Witness ==
    /\ stage = "responded"
    /\ request.pathname = S_user
    /\ HasSessionCookie
    /\ proxyResponse.kind = "next"
    /\ ~pageSession.present
    /\ response.kind = "redirect"

\* C8: whenever /user or /admin is rendered, the identity in the welcome
\* text is the session user's name, or the user's e-mail when the name is
\* empty, and it is never the empty string.
C8_IdentityShown ==
    (stage = "responded" /\ response.kind = "render"
        /\ response.page \in {"UserPage", "AdminPage"})
    => /\ pageSession.present
       /\ pageSession.user.name # "" => response.identity = pageSession.user.name
       /\ pageSession.user.name = "" => response.identity = pageSession.user.email
       /\ response.identity # ""

C8_Witness ==
    /\ stage = "responded"
    /\ response.kind = "render"
    /\ response.page = "AdminPage"
    /\ pageSession.user.name = ""
    /\ response.identity = "ann@example.com"

\* C9: a request for a protected path that carries the session cookie is
\* passed through by the proxy, whatever the cookie's value.
C9_ProtectedWithCookiePasses ==
    (ProxyDecided /\ InProtectedSet(request.pathname) /\ HasSessionCookie)
    => /\ proxyRan
       /\ proxyResponse = NextResponse_next
       /\ \A t \in Tokens :
            proxy([request EXCEPT !.cookies[SessionCookieName] = t])
                = NextResponse_next

C9_Witness ==
    /\ stage = "routed"
    /\ request.pathname = S_user \o <<"/","s","e","t">>
    /\ HasSessionCookie
    /\ request.cookies[SessionCookieName] = "tok-2"
    /\ proxyResponse.kind = "next"


---------------------------------------------------------------------------
(* Properties of sendMessage (SpecSend)                                    *)

\* Contact-form input that misses a required field or has a malformed
\* e-mail address.
MissingOrMalformed(input) ==
    \/ input = NullInput
    \/ input # NullInput
        /\ \/ input.name \in {UNDEFINED, <<>>}
           \/ input.message \in {UNDEFINED, <<>>}
           \/ input.email = UNDEFINED
           \/ ~isEmail(input.email)

Started(i) == calls[i].pc # "idle"
Finished(i) == calls[i].pc = "done"

ErrorStrings ==
    { "Name is required", "Invalid email", "Message is required", "Required",
      "Expected object, received null", "Failed to send message" }

\* C4: for input that misses a required field or has a malformed e-mail,
\* sendMessage returns { success: false } with a non-empty error string,
\* calls the e-mail API not at all and persists no record.
C4_InvalidInputRejected ==
    \A i \in CallIds :
        (Started(i) /\ MissingOrMalformed(calls[i].input))
        => /\ Finished(i)
           /\ ~calls[i].threw
           /\ calls[i].result # Pending
           /\ calls[i].result.success = FALSE
           /\ calls[i].result.error # ""
           /\ calls[i].sends = 0
           /\ calls[i].creates = 0
           /\ calls[i].emailOutcome = "none"
           /\ calls[i].dbOutcome = "none"
           /\ (\A j \in CallIds : ~(Started(j) /\ ~MissingOrMalformed(calls[j].input)))
                => (outbox = <<>> /\ messages = <<>>)

C4_Witness ==
    \E i \in CallIds :
        /\ Finished(i)
        /\ calls[i].input # NullInput
        /\ calls[i].input.name = <<"A","l">>
        /\ calls[i].input.email = <<"a","@","b">>
        /\ calls[i].input.message = <<"h","i">>
        /\ calls[i].result = Failure("Invalid email")

\* C5: for valid input, one invocation attempts exactly one e-mail send and
\* exactly one record persistence, and returns { success: true } only if
\* both the e-mail send and the persistence succeeded.
C5_ValidInputOneSendOneCreate ==
    \A i \in CallIds :
        (Finished(i) /\ ~MissingOrMalformed(calls[i].input))
        => /\ calls[i].sends = 1
           /\ calls[i].creates = 1
           /\ calls[i].result = Success
                => /\ calls[i].emailOutcome = "delivered"
                   /\ calls[i].dbOutcome = "created"

\* C10: every finished invocation of sendMessage has returned, not thrown,
\* whatever the input and however the e-mail API and the database ended;
\* the value is { success: true } or { success: false, error } with error a
\* string, and only a finished invocation has a result.
C10_AlwaysReturnsTaggedResult ==
    \A i \in CallIds :
        /\ Finished(i)
            => /\ ~calls[i].threw
               /\ \/ calls[i].result = Success
                  \/ /\ DOMAIN calls[i].result = {"success", "error"}
                     /\ calls[i].result.success = FALSE
                     /\ calls[i].result.error \in ErrorStrings
        /\ ~Finished(i) => (calls[i].result = Pending /\ ~calls[i].threw)
        /\ calls[i].pc = "awaitSend" => ENABLED SendSettles(i, "thrown")
        /\ calls[i].pc = "awaitCreate" => ENABLED CreateSettles(i, "thrown")

C10_Witness ==
    \E i, j \in CallIds :
        /\ calls[i].emailOutcome = "thrown"
        /\ calls[i].result = Failure("Failed to send message")
        /\ calls[j].dbOutcome = "thrown"
        /\ calls[j].result = Failure("Failed to send message")


\* The message of the first issue of an input, going through the schema's
\* fields in the order name, email, message.
FirstIssueMessage(input) ==
    IF input = NullInput THEN "Expected object, received null"
    ELSE IF input.name = UNDEFINED THEN "Required"
    ELSE IF input.name = <<>> THEN "Name is required"
    ELSE IF input.email = UNDEFINED THEN "Required"
    ELSE IF ~isEmail(input.email) THEN "Invalid email"
    ELSE IF input.message = UNDEFINED THEN "Required"
    ELSE "Message is required"

GenericFailure == "Failed to send message"

\* C11: when the input fails schema validation, the error string returned
\* is the message of the first validation issue, in the field order name,
\* email, message, and not the generic failure message.
C11_FirstValidationMessage ==
    \A i \in CallIds :
        (Finished(i) /\ MissingOrMalformed(calls[i].input))
        => /\ calls[i].result # Pending
           /\ calls[i].result.success = FALSE
           /\ calls[i].result.error = FirstIssueMessage(calls[i].input)
           /\ calls[i].result.error # GenericFailure

C11_Witness ==
    \E i \in CallIds :
        /\ Finished(i)
        /\ calls[i].input # NullInput
        /\ calls[i].input.name = <<>>
        /\ calls[i].input.email = <<"a","b",".","c","o">>
        /\ calls[i].input.message = <<>>
        /\ calls[i].result = Failure("Name is required")

\* C12: when the e-mail transport or the database throws on valid input,
\* the caller receives { success: false, error: 'Failed to send message' },
\* the same string for both, with nothing of the thrown error in it.
C12_DownstreamFailureIsGeneric ==
    \A i \in CallIds :
        (Finished(i) /\ "thrown" \in {calls[i].emailOutcome, calls[i].dbOutcome})
        => /\ ~MissingOrMalformed(calls[i].input)
           /\ ~calls[i].threw
           /\ calls[i].result = [success |-> FALSE, error |-> GenericFailure]
           /\ calls[i].result.error \notin {EmailThrowDetail, DbThrowDetail}

C12_Witness ==
    \E i, j \in CallIds :
        /\ calls[i].emailOutcome = "thrown"
        /\ calls[j].emailOutcome = "error-returned"
        /\ calls[j].dbOutcome = "thrown"
        /\ calls[i].result = calls[j].result
        /\ calls[i].result.error = GenericFailure


---------------------------------------------------------------------------
(* Properties of the user's role (SpecAuth)                                *)

\* C13: every user's role is one of USER, CLIENT, MANAGER, ADMIN in every
\* reachable state, and a user created without an explicit role has the
\* role USER.
C13_RoleInEnumDefaultUser ==
    \A k \in DOMAIN userTable :
        /\ userTable[k].role \in {"USER", "CLIENT", "MANAGER", "ADMIN"}
        /\ ~userTable[k].roleGiven => userTable[k].role = "USER"

C13_Witness ==
    /\ Len(userTable) = 2
    /\ ~userTable[1].roleGiven
    /\ userTable[1].role = "USER"
    /\ userTable[2].roleGiven
    /\ userTable[2].role = "MANAGER"

---------------------------------------------------------------------------
(* Properties of the e-mail configuration (SpecSend)                       *)

\* C16: the contact-form sender and the magic-link sender read the same
\* e-mail configuration, the documented RESEND_API_KEY and EMAIL_FROM, so
\* that with exactly the documented environment set, a send of either path
\* has an API key and a sender address.
C16_SendersShareDocumentedConfig ==
    (env = DocumentedEnv /\ \E i \in CallIds : calls[i].sends > 0)
    => /\ contactForm_keyVar = magicLink_keyVar
       /\ contactForm_fromVar = magicLink_fromVar
       /\ {contactForm_keyVar, contactForm_fromVar} = {"RESEND_API_KEY", "EMAIL_FROM"}
       /\ {contactForm_keyVar, contactForm_fromVar} \subseteq env
       /\ {magicLink_keyVar, magicLink_fromVar} \subseteq env


---------------------------------------------------------------------------
(* Properties of sendMessage's steps and of concurrent invocations         *)
(* (SpecSend)                                                              *)

ValidInputs == {v \in Inputs : ~MissingOrMalformed(v)}

Delivered(i) == calls[i].emailOutcome = "delivered"
Created(i) == calls[i].dbOutcome = "created"

\* How often a value occurs in a sequence.
Occurrences(seq, x) == Cardinality({k \in DOMAIN seq : seq[k] = x})

\* The result an invocation must end with, from what is its own: its
\* input and how its own send and its own persistence ended.
OwnResult(c) ==
    IF MissingOrMalformed(c.input) THEN Failure(FirstIssueMessage(c.input))
    ELSE IF c.emailOutcome = "thrown" \/ c.dbOutcome = "thrown"
         THEN Failure(GenericFailure)
         ELSE Success

\* C14: concurrent invocations are independent. Under every interleaving
\* of their steps, each finished invocation's result is the one its own
\* input and its own send and persistence outcomes give, and the e-mails
\* sent and rows stored are exactly those of the invocations whose send and
\* persistence succeeded: N successful invocations give N e-mails and N rows.
C14_ConcurrentCallsIndependent ==
    /\ \A i \in CallIds : Finished(i) => calls[i].result = OwnResult(calls[i])
    /\ \A v \in ValidInputs :
          /\ Occurrences(outbox, emailOf(v))
                = Cardinality({i \in CallIds : Delivered(i) /\ calls[i].input = v})
          /\ Occurrences(messages, rowOf(v))
                = Cardinality({i \in CallIds : Created(i) /\ calls[i].input = v})
    /\ (\A i \in CallIds : Delivered(i) /\ Created(i))
          => /\ Len(outbox) = MaxCalls
             /\ Len(messages) = MaxCalls
             /\ \A i \in CallIds : calls[i].result = Success

\* Two invocations in flight at once, the one's e-mail accepted first, the
\* other's row stored first, both successful.
C14_Witness ==
    /\ \A i \in CallIds : calls[i].result = Success
    /\ Len(outbox) = MaxCalls
    /\ Len(messages) = MaxCalls
    /\ calls[1].input.name = <<"A","l">>
    /\ calls[2].input.name = <<"B">>
    /\ outbox[1] = emailOf(calls[1].input)
    /\ messages[1] = rowOf(calls[2].input)

\* C17: within one invocation the order is validate, send, persist. The
\* send is attempted only for valid input, the persistence only after the
\* send returned without throwing; a thrown send leaves no record; neither
\* is attempted more than once.
C17_ValidateSendPersistOrder ==
    \A i \in CallIds :
        /\ calls[i].sends <= 1
        /\ calls[i].creates <= 1
        /\ calls[i].sends = 1 => (Started(i) /\ ~MissingOrMalformed(calls[i].input))
        /\ calls[i].pc = "awaitSend" => (calls[i].sends = 1 /\ calls[i].creates = 0)
        /\ calls[i].creates = 1
            => /\ calls[i].sends = 1
               /\ calls[i].emailOutcome \in {"delivered", "error-returned"}
        /\ calls[i].emailOutcome = "thrown"
            => /\ Finished(i)
               /\ calls[i].creates = 0
               /\ calls[i].dbOutcome = "none"
        /\ Created(i) => calls[i].creates = 1
        /\ Len(messages) = Cardinality({j \in CallIds : calls[j].creates = 1 /\ Created(j)})

C17_Witness ==
    \E i, j \in CallIds :
        /\ calls[i].emailOutcome = "thrown"
        /\ calls[i].sends = 1
        /\ calls[i].creates = 0
        /\ Finished(j)
        /\ calls[j].emailOutcome = "delivered"
        /\ calls[j].creates = 1
        /\ Len(messages) = 1

\* C18: when the persistence throws after the e-mail was sent, sendMessage
\* returns { success: false, error: 'Failed to send message' } and the
\* e-mail stays sent: nothing is rolled back.
C18_NoRollbackOfSentEmail ==
    /\ \A i \in CallIds :
          (Delivered(i) /\ calls[i].dbOutcome = "thrown")
          => /\ Finished(i)
             /\ calls[i].result = Failure(GenericFailure)
             /\ \E k \in DOMAIN outbox : outbox[k] = emailOf(calls[i].input)
    /\ Len(outbox) = Cardinality({i \in CallIds : Delivered(i)})

\* The state 'e-mail sent, no record, failure reported'.
C18_Witness ==
    /\ calls[1].emailOutcome = "delivered"
    /\ calls[1].dbOutcome = "thrown"
    /\ calls[1].result = Failure(GenericFailure)
    /\ calls[2].pc = "idle"
    /\ Len(outbox) = 1
    /\ messages = <<>>


---------------------------------------------------------------------------
(* Further properties of the proxy and of /user (SpecHttp)                 *)

S_api         == <<"/","a","p","i">>
S_next_static == <<"/","_","n","e","x","t","/","s","t","a","t","i","c">>
S_next_image  == <<"/","_","n","e","x","t","/","i","m","a","g","e">>
S_favicon     == <<"/","f","a","v","i","c","o","n",".","i","c","o">>

\* p is dir or lies under it.
Under(p, dir) == p = dir \/ startsWith(p, dir \o <<"/">>)

\* API routes and static assets, as the documentation names them.
ApiOrStaticAsset(p) ==
    \/ Under(p, S_api)
    \/ Under(p, S_next_static)
    \/ Under(p, S_next_image)
    \/ p = S_favicon

\* C15: the proxy is applied to every request path except API routes and
\* static assets (paths under /api, /_next/static, /_next/image, and
\* /favicon.ico), and to no other path is it not applied, also not to one
\* that merely starts with the letters 'api'.
C15_MatcherExcludesOnlyApiAndStatic ==
    ProxyDecided => (proxyRan <=> ~ApiOrStaticAsset(request.pathname))

\* A path is a route or continues it with a slash.
RouteOrSubPath(p, route) ==
    \/ p = route
    \/ /\ Len(p) > Len(route)
       /\ \A k \in 1..Len(route) : p[k] = route[k]
       /\ p[Len(route) + 1] = "/"

\* C19: the proxy treats a path as protected if and only if it is
\* /messages or /user or begins with one of them followed by '/': a
\* request without the cookie is redirected for /user/set and the like,
\* and is not for /users or /messages2.
C19_ProtectedIffRouteOrSubPath ==
    (ProxyDecided /\ ~HasSessionCookie)
    => /\ proxyResponse.kind = "redirect"
            <=> ( \/ RouteOrSubPath(request.pathname, S_messages)
                  \/ RouteOrSubPath(request.pathname, S_user) )
       /\ request.pathname \in {S_user \o <<"s">>, S_messages \o <<"2">>}
            => proxyResponse = NextResponse_next
       /\ request.pathname \in {S_user \o <<"/","s","e","t">>, S_messages \o <<"/">>}
            => proxyResponse.kind = "redirect"

C19_Witness ==
    /\ stage = "responded"
    /\ request.pathname = S_messages \o <<"2">>
    /\ ~HasSessionCookie
    /\ proxyRan
    /\ proxyResponse.kind = "next"
    /\ response.kind = "render"

\* C20: proxy and page together never render the /user content without a
\* valid session: a request whose session cookie stands for no valid
\* session passes the proxy, which only tests the cookie's presence, and is
\* redirected to /signin by the page's session lookup.
C20_UserContentNeedsValidSession ==
    /\ (stage = "responded" /\ response.page = "UserPage")
          => /\ request.pathname = S_user
             /\ HasSessionCookie
             /\ proxyResponse = NextResponse_next
             /\ pageSession.present
    /\ (stage = "responded" /\ request.pathname = S_user
            /\ HasSessionCookie /\ ~pageSession.present)
          => /\ proxyRan
             /\ proxyResponse = NextResponse_next
             /\ response.kind = "redirect"
             /\ response.location.pathname = S_signin
             /\ response.location.search = <<>>
             /\ response.page = ""

C20_Witness ==
    /\ stage = "responded"
    /\ request.pathname = S_user
    /\ HasSessionCookie
    /\ request.cookies[SessionCookieName] = "tok-2"
    /\ proxyResponse = NextResponse_next
    /\ pageSession = NoSession
    /\ response.kind = "redirect"
    /\ response.location.pathname = S_signin

---------------------------------------------------------------------------
(* Properties of the contact form (SpecForm, SpecFormFair)                 *)

FormLoading == form.status.type = "loading"
FormSettledStatus == form.status.type \in {"success", "error"}

\* C21: after the contact form is submitted with valid fields, the status
\* eventually leaves "loading" and becomes "success" or "error", for every
\* outcome of the sendMessage call, the call itself rejecting included; so
\* the submit button, disabled while loading, is eventually enabled again.
C21_LoadingLeadsToSuccessOrError ==
    FormLoading ~> (FormSettledStatus /\ ~submitDisabled)

\* The fields of the form that fail its validation, and the message of each.
FailingFields ==
    { f \in {"name", "email", "message"} :
        \/ f = "name" /\ form.name = <<>>
        \/ f = "email" /\ ~isEmail(form.email)
        \/ f = "message" /\ form.message = <<>> }
ValidationMessage(f) ==
    IF f = "name" THEN "Name is required"
    ELSE IF f = "email" THEN "Invalid email"
    ELSE "Message is required"

SubmitStep == form'.submits = form.submits + 1

\* C22: when client-side validation of the fields fails, sendMessage is not
\* called, the status is left as it was (it does not become "loading"), and
\* the per-field errors are the validation messages of exactly the failing
\* fields.
C22_InvalidSubmitOnlySetsErrors ==
    [][ (SubmitStep /\ FailingFields # {}) =>
          /\ form'.calls = form.calls
          /\ form'.call = form.call
          /\ form'.status = form.status
          /\ form'.status.type # "loading"
          /\ DOMAIN form'.errors = FailingFields
          /\ \A f \in FailingFields : form'.errors[f] = ValidationMessage(f)
      ]_vars

\* A submit with an empty name and a malformed e-mail was rejected by the
\* client-side validation.
C22_Witness ==
    /\ form.submits > 0
    /\ form.calls = 0
    /\ form.status.type = "idle"
    /\ DOMAIN form.errors = {"name", "email"}
    /\ form.message # <<>>

ResolveStep == form.call = "pending" /\ form'.call = "resolved"

\* C23: a successful sendMessage response sets the status to "success" and
\* resets name, email and message to empty; a failed response sets the
\* status to "error" with the server's error string and leaves name, email
\* and message as they are.
C23_ResponseSetsStatusAndFields ==
    [][ ResolveStep =>
          IF form'.response.success
          THEN /\ form'.status.type = "success"
               /\ form'.name = <<>> /\ form'.email = <<>> /\ form'.message = <<>>
          ELSE /\ form'.status.type = "error"
               /\ form'.status.message = form'.response.error
               /\ form'.name = form.name
               /\ form'.email = form.email
               /\ form'.message = form.message
      ]_vars

\* A call resolved with a failure: the error is shown, the fields are kept.
C23_Witness ==
    /\ form.call = "resolved"
    /\ ~form.response.success
    /\ form.status = StatusError("Failed to send message")
    /\ form.name # <<>> /\ form.email # <<>> /\ form.message # <<>>

---------------------------------------------------------------------------
(* Properties of the magic-link form (SpecMagic)                           *)

SettleStep == magic'.inFlight = magic.inFlight - 1

\* C24: after every submit the loading flag returns to false whether the
\* magic-link request resolves or rejects; sent becomes true only if the
\* request resolved; a rejected request leaves sent false and the form
\* available for another attempt.
C24_LoadingResetSentOnlyOnResolve ==
    [][ SettleStep =>
          /\ magic'.loading = FALSE
          /\ magic'.sent = (magic.sent \/ magic'.last \in {"resolved-data", "resolved-error"})
          /\ magic'.last = "rejected" =>
                /\ magic'.sent = magic.sent
                /\ formRendered' /\ ~buttonDisabled'
      ]_vars

\* A request was rejected: the form is back, not loading and not sent.
C24_Witness ==
    /\ magic.last = "rejected"
    /\ magic.inFlight = 0
    /\ Len(magic.requests) > 0
    /\ ~magic.sent /\ ~magic.loading

\* C25: sent is absorbing: once true it never becomes false, the form is
\* no longer rendered and the component issues no further magic-link
\* request; and, the button being disabled while loading, at most one
\* magic-link request is in flight at a time.
C25_SentAbsorbingOneInFlight ==
    /\ [](magic.inFlight <= 1)
    /\ [](magic.sent => ~formRendered /\ ~ENABLED MagicLinkSignUp_handleSubmit)
    /\ [][ magic.sent => (magic'.sent /\ magic'.requests = magic.requests) ]_vars

\* The link was sent on a second attempt, with nothing in flight.
C25_Witness ==
    /\ magic.sent
    /\ Len(magic.requests) = 2
    /\ magic.inFlight = 0


=============================================================================
